---- MODULE Spec2Model ----
(***************************************************************************)
(* Model of pragyan-super30-webanalytics.py: a Streamlit dashboard with    *)
(* three views (simulated road traffic, Wikipedia pageviews, website SEO). *)
(* A render pass is one run of the script: the module-level dispatch on    *)
(* the sidebar radio and the selected display_* handler, run to the end or *)
(* to the first exception that leaves the handler.                         *)
(*                                                                         *)
(* Text is a sequence of one-character strings wherever the code splits,   *)
(* searches or replaces it; numbers with a fractional part are scaled      *)
(* integers (the scale is stated where each is introduced).                *)
(***************************************************************************)
EXTENDS Integers, Sequences, FiniteSets, TLC

VARIABLES
    pc,          \* "idle" (no script run in progress, page empty) or "rendered"
    option,      \* value of the sidebar radio in the pass
    inputs,      \* widget values of the pass (text inputs, dates, button)
    response,    \* what requests.get produced in the pass, if it was called
    out,         \* what the pass put on the page, the GETs it issued, the exception that left it
    df,          \* the table of generate_simulated_traffic_data in the pass
    t_pc,        \* title normalisation: position
    t_input,     \* title normalisation: article_input
    t_title,     \* title normalisation: article_title
    t_formatted, \* title normalisation: article_formatted
    s_pc,        \* session tile: position
    s_duration,  \* session tile: metrics.get('avg_session_duration')
    s_tile       \* session tile: text of the "Avg. Session" tile

vars == <<pc, option, inputs, response, out, df,
          t_pc, t_input, t_title, t_formatted, s_pc, s_duration, s_tile>>

mainVars == <<pc, option, inputs, response, out, df>>
titleVars == <<t_pc, t_input, t_title, t_formatted>>
sessionVars == <<s_pc, s_duration, s_tile>>

-----------------------------------------------------------------------------
(* Python values.  A JSON value or a dict lookup result is a tagged record. *)

JAbsent == [t |-> "absent"]                 \* the key is not in the dict
JNull == [t |-> "null"]                     \* None
JBool(b) == [t |-> "bool", v |-> b]
JNum(n) == [t |-> "num", v |-> n]
JStr(s) == [t |-> "str", v |-> s]
JList(items) == [t |-> "list", items |-> items]
JDict(items) == [t |-> "dict", items |-> items]

Range(s) == {s[i] : i \in 1..Len(s)}

\* Python's truth value of a value that is present.
Truthy(v) ==
    CASE v.t = "absent" -> FALSE
      [] v.t = "null" -> FALSE
      [] v.t = "bool" -> v.v
      [] v.t = "num" -> v.v # 0
      [] v.t = "str" -> v.v # ""
      [] v.t = "list" -> v.items # <<>>
      [] v.t = "dict" -> v.items # <<>>
      [] v.t = "object" -> \E k \in DOMAIN v : k # "t" /\ v[k] # JAbsent

\* dict.get(key, default) on a modelled object.
Get(obj, key, default) == IF obj[key] = JAbsent THEN default ELSE obj[key]

-----------------------------------------------------------------------------
(* Strings as character sequences.                                          *)

\* "".join(chars[lo..hi]), by halves
RECURSIVE StrRange(_, _, _)
StrRange(chars, lo, hi) ==
    IF lo > hi THEN ""
    ELSE IF lo = hi THEN chars[lo]
    ELSE LET mid == (lo + hi) \div 2
         IN StrRange(chars, lo, mid) \o StrRange(chars, mid + 1, hi)

\* "".join(chars)
Str(chars) == StrRange(chars, 1, Len(chars))

\* sub in s
Contains(s, sub) ==
    \E i \in 0..(Len(s) - Len(sub)) : SubSeq(s, i + 1, i + Len(sub)) = sub

\* the k-th smallest element of a set of integers
Nth(S, k) == CHOOSE i \in S : Cardinality({j \in S : j < i}) = k - 1

\* s.split(sep) for a one-character separator: the pieces between
\* consecutive separators, one more piece than there are separators
Split(s, sep) ==
    LET seps == {i \in 1..Len(s) : s[i] = sep}
        n == Cardinality(seps)
        pos(k) == IF k = 0 THEN 0 ELSE IF k = n + 1 THEN Len(s) + 1 ELSE Nth(seps, k)
    IN [k \in 1..(n + 1) |-> SubSeq(s, pos(k - 1) + 1, pos(k) - 1)]

\* s.replace(old, new) for one-character old and new
Replace(s, old, new) == [i \in 1..Len(s) |-> IF s[i] = old THEN new ELSE s[i]]

\* the pieces ss[lo..hi] joined, by halves
RECURSIVE ConcatRange(_, _, _)
ConcatRange(ss, lo, hi) ==
    IF lo > hi THEN <<>>
    ELSE IF lo = hi THEN ss[lo]
    ELSE LET mid == (lo + hi) \div 2
         IN ConcatRange(ss, lo, mid) \o ConcatRange(ss, mid + 1, hi)

Concat(ss) == ConcatRange(ss, 1, Len(ss))

HexDigits == {"0", "1", "2", "3", "4", "5", "6", "7", "8", "9",
              "A", "B", "C", "D", "E", "F", "a", "b", "c", "d", "e", "f"}

HexVal(c) ==
    CASE c = "0" -> 0 [] c = "1" -> 1 [] c = "2" -> 2 [] c = "3" -> 3
      [] c = "4" -> 4 [] c = "5" -> 5 [] c = "6" -> 6 [] c = "7" -> 7
      [] c = "8" -> 8 [] c = "9" -> 9
      [] c \in {"A", "a"} -> 10 [] c \in {"B", "b"} -> 11 [] c \in {"C", "c"} -> 12
      [] c \in {"D", "d"} -> 13 [] c \in {"E", "e"} -> 14 [] c \in {"F", "f"} -> 15

\* bytes([b]).decode('utf-8', 'replace') for a byte that no continuation byte
\* follows: an ASCII byte is its character, any other byte is U+FFFD.
ByteChar(b) ==
    CASE b = 32 -> " " [] b = 34 -> "\"" [] b = 37 -> "%" [] b = 40 -> "("
      [] b = 41 -> ")" [] b = 47 -> "/" [] b = 82 -> "R" [] b = 83 -> "S"
      [] b = 85 -> "U" [] b = 95 -> "_"
      [] OTHER -> IF b < 128 THEN "chr" \o ToString(b) ELSE "U+FFFD"

\* urllib.parse.unquote: split on '%'; a piece that starts with two hex digits
\* has them replaced by the byte they name, any other piece keeps its '%'.
unquote_piece(item) ==
    IF Len(item) >= 2 /\ item[1] \in HexDigits /\ item[2] \in HexDigits
    THEN <<ByteChar(16 * HexVal(item[1]) + HexVal(item[2]))>> \o SubSeq(item, 3, Len(item))
    ELSE <<"%">> \o item

unquote(s) ==
    IF "%" \notin Range(s) THEN s
    ELSE LET bits == Split(s, "%")
         IN bits[1] \o Concat([i \in 1..(Len(bits) - 1) |-> unquote_piece(bits[i + 1])])

MARKER == <<"e", "n", ".", "w", "i", "k", "i", "p", "e", "d", "i", "a", ".",
            "o", "r", "g", "/", "w", "i", "k", "i", "/">>

HTTPS == <<"h", "t", "t", "p", "s", ":", "/", "/">>

STREAMLIT == <<"S", "t", "r", "e", "a", "m", "l", "i", "t">>

STREAMLIT_COMPANY_URL ==
    HTTPS \o MARKER \o STREAMLIT \o <<"_", "(", "c", "o", "m", "p", "a", "n", "y", ")">>

\* derive_article_title with the underscores replaced before the escapes are decoded
derive_article_title_replace_first(article_input) ==
    IF Contains(article_input, MARKER)
    THEN LET segs == Split(article_input, "/")
         IN unquote(Replace(segs[Len(segs)], "_", " "))
    ELSE article_input

\* display_wikipedia_analytics, lines 141-143
derive_article_title(article_input) ==
    IF Contains(article_input, MARKER)
    THEN LET segs == Split(article_input, "/")
         IN Replace(unquote(segs[Len(segs)]), "_", " ")
    ELSE article_input

\* fetch_wikipedia_pageviews, line 98
format_article(article) == Replace(article, " ", "_")

-----------------------------------------------------------------------------
(* Number formatting.                                                       *)

Pad3(n) == (IF n < 10 THEN "00" ELSE IF n < 100 THEN "0" ELSE "") \o ToString(n)

\* f"{n:,}" for a non-negative int
Commas(n) ==
    LET C[k \in 0..n] ==
            IF k < 1000 THEN ToString(k) ELSE C[k \div 1000] \o "," \o Pad3(k % 1000)
    IN C[n]

\* format(v, ','): a str cannot take the ',' option, None takes no format string
format_comma(v) ==
    CASE v.t = "num" -> [raised |-> "none", text |-> Commas(v.v)]
      [] v.t = "str" -> [raised |-> "ValueError", text |-> ""]
      [] OTHER -> [raised |-> "TypeError", text |-> ""]

\* f"{x:.1%}" for x given in thousandths (x >= 0)
format_percent1(p) == ToString(p \div 10) \o "." \o ToString(p % 10) \o "%"

\* f"{num/den:.0f}": the nearest integer, a tie going to the even one
format_round0(num, den) ==
    LET q == num \div den
        r == num % den
    IN ToString(IF 2 * r > den \/ (2 * r = den /\ q % 2 = 1) THEN q + 1 ELSE q)

\* divmod(a, b) for b > 0
divmod(a, b) == <<a \div b, a % b>>

\* int(x) for x given in tenths: truncation toward zero
int_of_tenths(x) == IF x >= 0 THEN x \div 10 ELSE -((-x) \div 10)

-----------------------------------------------------------------------------
(* What a pass puts on the page.                                            *)

NoOut == [msgs |-> <<>>, tiles |-> <<>>, charts |-> <<>>, gets |-> <<>>, raised |-> "none"]

\* st.info / st.warning / st.error / st.success with f"{head}{arg}"
Message(o, level, head, arg) ==
    [o EXCEPT !.msgs = Append(@, [level |-> level, head |-> head, arg |-> arg])]

\* kpi.metric(label, value)
Metric(o, label, value) == [o EXCEPT !.tiles = Append(@, [label |-> label, value |-> value])]

\* st.plotly_chart(fig)
Chart(o, fig) == [o EXCEPT !.charts = Append(@, fig)]

\* an exception leaves the handler
Raise(o, exc) == [o EXCEPT !.raised = exc]

None == [t |-> "null"]

-----------------------------------------------------------------------------
(* Simulated road traffic view.                                             *)

\* hundredths of a degree
LAT_MIN == 4070
LAT_MAX == 4080
LON_MIN == -7402
LON_MAX == -7393

\* points per axis, np.linspace(..., 15)
GridN == 15

\* the random stream of a pass: draw n is pattern[n mod StreamPeriod], a
\* sample of [0, 1] in steps of 1/UnitDen
StreamPeriod == 5
UnitDen == 2

Streams == [1..StreamPeriod -> 0..UnitDen]

Draw(stream, n) == stream[((n - 1) % StreamPeriod) + 1]

\* np.linspace(lo, hi, n)[i], in units of 1/(n-1) of the unit of lo and hi
linspace(lo, hi, n) == [i \in 1..n |-> lo * (n - 1) + (i - 1) * (hi - lo)]

\* uniform with the width taken to be hi instead of hi - lo
uniform_width_hi(lo, hi, u) == lo * UnitDen + hi * u

\* np.random.uniform(lo, hi) for the sample u: lo + (hi - lo) * u/UnitDen, in
\* units of 1/UnitDen of the unit of lo and hi.  numpy draws from [lo, hi) and
\* documents that rounding can return hi, so u = UnitDen is kept.
uniform(lo, hi, u) == lo * UnitDen + (hi - lo) * u

\* lines 15-30.  Speeds, jamFactor and confidence are in units of 1/(10*UnitDen).
generate_simulated_traffic_data(stream) ==
    LET lat_vals == linspace(LAT_MIN, LAT_MAX, GridN)
        lon_vals == linspace(LON_MIN, LON_MAX, GridN)
    IN [k \in 1..(GridN * GridN) |->
            LET i == ((k - 1) \div GridN) + 1
                j == ((k - 1) % GridN) + 1
                n == 4 * (k - 1)
            IN [lat |-> lat_vals[i],
                lon |-> lon_vals[j],
                currentSpeed |-> uniform(100, 600, Draw(stream, n + 1)),
                freeFlowSpeed |-> uniform(400, 700, Draw(stream, n + 2)),
                jamFactor |-> uniform(0, 100, Draw(stream, n + 3)),
                confidence |-> uniform(5, 10, Draw(stream, n + 4))]]

\* df[col].sum() over rows lo..hi, by halves
RECURSIVE RangeSum(_, _, _, _)
RangeSum(table, col, lo, hi) ==
    IF lo > hi THEN 0
    ELSE IF lo = hi THEN table[lo][col]
    ELSE LET mid == (lo + hi) \div 2
         IN RangeSum(table, col, lo, mid) + RangeSum(table, col, mid + 1, hi)

ColumnSum(table, col) == RangeSum(table, col, 1, Len(table))

\* df[col].max() over rows lo..hi (lo <= hi), by halves
RECURSIVE RangeMax(_, _, _, _)
RangeMax(table, col, lo, hi) ==
    IF lo = hi THEN table[lo][col]
    ELSE LET mid == (lo + hi) \div 2
             l == RangeMax(table, col, lo, mid)
             r == RangeMax(table, col, mid + 1, hi)
         IN IF r > l THEN r ELSE l

ColumnMax(table, col) == RangeMax(table, col, 1, Len(table))

\* df[col].mean(), as the fraction num/den
ColumnMean(table, col) == [num |-> ColumnSum(table, col), den |-> Len(table)]

\* lines 32-90; returns the page and the table
display_road_traffic_analytics(stream) ==
    LET table == generate_simulated_traffic_data(stream)
        o1 == Message(NoOut, "info",
                      "This section displays randomly generated traffic data for a sample area in New York City.", "")
        o2 == Chart(Chart(Chart(o1, "scatter_mapbox"), "line"), "histogram")
        o3 == Metric(o2, "Average Current Speed", ColumnMean(table, "currentSpeed"))
        o4 == Metric(o3, "Average Free Flow Speed", ColumnMean(table, "freeFlowSpeed"))
        o5 == Metric(o4, "Average Jam Factor", ColumnMean(table, "jamFactor"))
        o6 == Metric(o5, "Maximum Jam Factor", [num |-> ColumnMax(table, "jamFactor"), den |-> 1])
    IN [out |-> o6, df |-> table]

-----------------------------------------------------------------------------
(* Wikipedia pageview view.                                                 *)

\* Dates are days of January 2024; today is day MaxDay.
MaxDay == 3

Dates == 1..MaxDay

\* d.strftime('%Y%m%d')
strftime_ymd(d) == "202401" \o (IF d < 10 THEN "0" ELSE "") \o ToString(d)

\* d.strftime('%b %d, %Y')
strftime_bdy(d) == "Jan " \o (IF d < 10 THEN "0" ELSE "") \o ToString(d) \o ", 2024"

\* response.raise_for_status() raises HTTPError
raise_for_status_raises(status) == 400 <= status /\ status < 600

http_error_text(status) ==
    ToString(status) \o (IF status < 500 THEN " Client Error" ELSE " Server Error")

\* wikipedia_status_outcome with raise_for_status() called before the 404 test
wikipedia_status_outcome_raise_first(status) ==
    IF raise_for_status_raises(status) THEN "http_error"
    ELSE IF status = 404 THEN "not_found"
    ELSE "ok"

\* lines 105-108: which way the status sends fetch_wikipedia_pageviews
wikipedia_status_outcome(status) ==
    IF status = 404 THEN "not_found"
    ELSE IF raise_for_status_raises(status) THEN "http_error"
    ELSE "ok"

\* line 110: 'items' in data.  A list or a str body is searched for the element
\* or substring "items" (the modelled ones hold none); None, a number or a
\* bool is not iterable.
items_in(data) ==
    CASE data.t = "object" -> [raised |-> "none", found |-> data.items # JAbsent]
      [] data.t \in {"list", "str"} -> [raised |-> "none", found |-> FALSE]
      [] OTHER -> [raised |-> "TypeError", found |-> FALSE]

\* lines 111-114: the table of data['items'], or the exception raised on the
\* way.  An empty list gives a frame with no 'timestamp' column; a list of
\* dicts gives the columns that occur as keys.
items_frame(items) ==
    IF items.t = "null" THEN [raised |-> "KeyError", rows |-> <<>>]
    ELSE IF items.t # "list" THEN [raised |-> "ValueError", rows |-> <<>>]
    ELSE IF \A i \in 1..Len(items.items) : items.items[i].timestamp = JAbsent
    THEN [raised |-> "KeyError", rows |-> <<>>]
    ELSE IF \E i \in 1..Len(items.items) : items.items[i].timestamp.t # "stamp"
    THEN [raised |-> "ValueError", rows |-> <<>>]
    ELSE IF \A i \in 1..Len(items.items) : items.items[i].views = JAbsent
    THEN [raised |-> "KeyError", rows |-> <<>>]
    ELSE [raised |-> "none",
          rows |-> [i \in 1..Len(items.items) |->
                       [date |-> items.items[i].timestamp.day,
                        pageviews |-> items.items[i].views]]]

\* line 104: the one requests.get of the Wikipedia view
wikipedia_get(o, article, start_date, end_date) ==
    [o EXCEPT !.gets = Append(@, [api |-> "wikimedia pageviews per-article",
                                  article |-> Str(format_article(article)),
                                  start |-> strftime_ymd(start_date),
                                  end |-> strftime_ymd(end_date),
                                  user_agent |-> "StreamlitApp/1.0"])]

\* lines 94-122; returns the page and the returned table (or None)
fetch_wikipedia_pageviews(o, article, start_date, end_date, resp, build) ==
    LET o1 == wikipedia_get(o, article, start_date, end_date)
        failed(text) == [out |-> Message(o1, "error", "API request failed: ", text), ret |-> None]
        broken(exc) == [out |-> Message(o1, "error", "Error processing data: ", exc), ret |-> None]
    IN IF resp.kind = "exception" THEN failed(resp.text)
       ELSE LET outcome == wikipedia_status_outcome(resp.status)
            IN IF outcome = "not_found"
               THEN [out |-> Message(o1, "error", "Article '{article}' not found on Wikipedia.",
                                     Str(article)),
                     ret |-> None]
               ELSE IF outcome = "http_error" THEN failed(http_error_text(resp.status))
               ELSE IF resp.body.t = "notjson"
               THEN IF build.json_error_is_request_exception
                    THEN failed("JSONDecodeError") ELSE broken("JSONDecodeError")
               ELSE LET has == items_in(resp.body)
                    IN IF has.raised # "none" THEN broken(has.raised)
                       ELSE IF ~has.found THEN [out |-> o1, ret |-> None]
                       ELSE LET frame == items_frame(resp.body.items)
                            IN IF frame.raised # "none" THEN broken(frame.raised)
                               ELSE [out |-> o1, ret |-> [t |-> "frame", rows |-> frame.rows]]

\* dates_out_of_order with the comparison turned around
dates_out_of_order_flipped(start_date, end_date) == start_date < end_date

\* line 145
dates_out_of_order(start_date, end_date) == start_date > end_date

\* line 152: views_df is not None and not views_df.empty
has_rows(views_df) == views_df # None /\ views_df.rows # <<>>

\* views_df['pageviews'].idxmax(): the first row holding the maximum
idxmax(rows) ==
    CHOOSE i \in 1..Len(rows) :
        /\ \A j \in 1..Len(rows) : rows[j].pageviews.v <= rows[i].pageviews.v
        /\ \A j \in 1..(i - 1) : rows[j].pageviews.v < rows[i].pageviews.v

NumberSum(rows) ==
    LET S[k \in 0..Len(rows)] == IF k = 0 THEN 0 ELSE S[k - 1] + rows[k].pageviews.v
    IN S[Len(rows)]

\* lines 153-176.  sum() of a column of str concatenates; mean() of it raises.
render_pageviews(o, article_title, rows) ==
    LET o1 == Message(o, "success", "Data retrieved for '{article_title}'!", Str(article_title))
    IN IF \E i \in 1..Len(rows) : rows[i].pageviews.t # "num" THEN Raise(o1, "TypeError")
       ELSE LET total_views == NumberSum(rows)
                peak == rows[idxmax(rows)]
                o2 == Metric(o1, "Total Pageviews", Commas(total_views))
                o3 == Metric(o2, "Average Daily Views", format_round0(total_views, Len(rows)))
                o4 == Metric(o3, "Peak Views",
                             Commas(peak.pageviews.v) \o " " \o strftime_bdy(peak.date))
            IN Chart(o4, "line")

\* lines 124-178
display_wikipedia_analytics(in, resp, build) ==
    LET o0 == Message(NoOut, "info",
                      "Analyze daily pageviews for English Wikipedia articles using the free Wikimedia API.", "")
    IN IF ~in.wiki_button THEN o0
       ELSE IF in.article_input = <<>>
       THEN Message(o0, "warning", "Please enter an article title or URL.", "")
       ELSE LET article_title == derive_article_title(in.article_input)
            IN IF dates_out_of_order(in.start_date, in.end_date)
               THEN Message(o0, "warning", "Start date cannot be after end date.", "")
               ELSE LET f == fetch_wikipedia_pageviews(o0, article_title, in.start_date,
                                                       in.end_date, resp, build)
                    IN IF has_rows(f.ret)
                       THEN render_pageviews(f.out, article_title, f.ret.rows)
                       ELSE Message(f.out, "error", "No data available for '{article_title}'.",
                                    Str(article_title))

-----------------------------------------------------------------------------
(* Website SEO view.                                                        *)

\* seo_inputs_missing with "and" for "or"
seo_inputs_missing_both(api_key, domain) == api_key = "" /\ domain = ""

\* line 201: not api_key or not domain
seo_inputs_missing(api_key, domain) == api_key = "" \/ domain = ""

\* seo_get issuing the request a second time
seo_get_twice(o, api_key, domain) ==
    LET g == [api |-> "seoreviewtools website-traffic-v2", key |-> api_key, domain |-> domain]
    IN [o EXCEPT !.gets = Append(Append(@, g), g)]

\* line 186: the one requests.get of the SEO view
seo_get(o, api_key, domain) ==
    [o EXCEPT !.gets = Append(@, [api |-> "seoreviewtools website-traffic-v2",
                                  key |-> api_key, domain |-> domain])]

\* lines 182-191; returns the page, the returned value (or None) and the
\* exception that leaves the function.  response.json() of a body that is not
\* JSON raises an error that is a RequestException in some builds of requests
\* and a plain ValueError in the others.
fetch_website_seo_data(o, api_key, domain, resp, build) ==
    LET o1 == seo_get(o, api_key, domain)
        failed(text) == [out |-> Message(o1, "error", "API request failed: ", text), ret |-> None]
    IN IF resp.kind = "exception" THEN failed(resp.text)
       ELSE IF raise_for_status_raises(resp.status) THEN failed(http_error_text(resp.status))
       ELSE IF resp.body.t = "notjson"
       THEN IF build.json_error_is_request_exception
            THEN failed("JSONDecodeError")
            ELSE [out |-> Raise(o1, "JSONDecodeError"), ret |-> None]
       ELSE [out |-> o1, ret |-> resp.body]

\* line 215
kpi_global_rank(o, metrics) ==
    IF o.raised # "none" THEN o
    ELSE LET f == format_comma(Get(metrics, "global_rank", JStr("N/A")))
         IN IF f.raised # "none" THEN Raise(o, f.raised)
            ELSE Metric(o, "Global Rank", "#" \o f.text)

\* line 216
kpi_visits(o, metrics) ==
    IF o.raised # "none" THEN o
    ELSE LET f == format_comma(Get(metrics, "visits", JNum(0)))
         IN IF f.raised # "none" THEN Raise(o, f.raised)
            ELSE Metric(o, "Monthly Visits", f.text)

\* lines 217-218; bounce_rate is in thousandths
kpi_bounce_rate(o, metrics) ==
    IF o.raised # "none" THEN o
    ELSE LET bounce_rate == Get(metrics, "bounce_rate", None)
         IN IF bounce_rate = None THEN Metric(o, "Bounce Rate", "N/A")
            ELSE IF bounce_rate.t # "num" THEN Raise(o, "ValueError")
            ELSE Metric(o, "Bounce Rate", format_percent1(bounce_rate.v))

\* avg_session_tile with the quotient and the remainder taken in the wrong order
avg_session_tile_swapped(duration) ==
    IF duration # None
    THEN LET ms == divmod(int_of_tenths(duration.v), 60)
         IN ToString(ms[2]) \o "m " \o ToString(ms[1]) \o "s"
    ELSE "N/A"

\* lines 219-224: the text of the "Avg. Session" tile; duration is in tenths
\* of a second
avg_session_tile(duration) ==
    IF duration # None
    THEN LET ms == divmod(int_of_tenths(duration.v), 60)
         IN ToString(ms[1]) \o "m " \o ToString(ms[2]) \o "s"
    ELSE "N/A"

kpi_avg_session(o, metrics) ==
    IF o.raised # "none" THEN o
    ELSE LET duration == Get(metrics, "avg_session_duration", None)
         IN IF duration # None /\ duration.t # "num" THEN Raise(o, "TypeError")
            ELSE Metric(o, "Avg. Session", avg_session_tile(duration))

\* lines 228-242; px.choropleth raises ValueError for a column the frame lacks
chart_countries(o, metrics) ==
    IF o.raised # "none" THEN o
    ELSE LET country_data == Get(metrics, "traffic_country", JList(<<>>))
         IN IF ~Truthy(country_data) THEN Message(o, "info", "No geographic data available.", "")
            ELSE IF \E i \in 1..Len(country_data.items) :
                        {"country_code", "traffic_percentage", "country_name"}
                            \ DOMAIN country_data.items[i] # {}
            THEN Raise(o, "ValueError")
            ELSE Chart(o, "choropleth")

\* lines 245-257
chart_devices(o, metrics) ==
    IF o.raised # "none" THEN o
    ELSE LET device_data == Get(metrics, "traffic_device_split", JDict(<<>>))
         IN IF ~Truthy(device_data) THEN Message(o, "info", "No device data available.", "")
            ELSE Chart(o, "pie:Device")

\* lines 259-271
chart_sources(o, metrics) ==
    IF o.raised # "none" THEN o
    ELSE LET sources_data == Get(metrics, "traffic_sources", JDict(<<>>))
         IN IF ~Truthy(sources_data) THEN Message(o, "info", "No traffic source data available.", "")
            ELSE Chart(o, "pie:Source")

EmptyMetrics ==
    [t |-> "object", global_rank |-> JAbsent, visits |-> JAbsent, bounce_rate |-> JAbsent,
     avg_session_duration |-> JAbsent, traffic_country |-> JAbsent,
     traffic_device_split |-> JAbsent, traffic_sources |-> JAbsent]

\* lines 209-274
render_seo(o, domain, data) ==
    LET o1 == Message(o, "success", "Data retrieved for {domain}!", domain)
        metrics == Get(data, "data", EmptyMetrics)
    IN IF metrics.t # "object" THEN Raise(o1, "AttributeError")
       ELSE chart_sources(chart_devices(chart_countries(
                kpi_avg_session(kpi_bounce_rate(kpi_visits(kpi_global_rank(o1, metrics),
                    metrics), metrics), metrics), metrics), metrics), metrics)

\* lines 193-278
display_website_seo_analytics(in, resp, build) ==
    LET o0 == Message(NoOut, "info",
                      "Provide a free API key from SEO Review Tools and a website domain to get traffic & SEO info.", "")
    IN IF ~in.seo_button THEN o0
       ELSE IF seo_inputs_missing(in.api_key, in.domain)
       THEN Message(o0, "warning", "API key and domain are required.", "")
       ELSE LET f == fetch_website_seo_data(o0, in.api_key, in.domain, resp, build)
                data == f.ret
            IN IF f.out.raised # "none" THEN f.out
               ELSE IF ~Truthy(data)
               THEN Message(f.out, "error", "Failed to retrieve data. Check API key and domain.", "")
               ELSE IF data.t # "object" THEN Raise(f.out, "AttributeError")
               ELSE IF Truthy(Get(data, "success", JBool(FALSE)))
               THEN render_seo(f.out, in.domain, data)
               ELSE LET message == Get(data, "message", JStr("Unknown error"))
                    IN Message(f.out, "error", "API error: ",
                               IF message.t = "str" THEN message.v ELSE "None")

-----------------------------------------------------------------------------
(* The script: lines 282-296.                                               *)

script(opt, in, stream, resp, build) ==
    IF opt = "Simulated NYC Road Traffic" THEN display_road_traffic_analytics(stream)
    ELSE IF opt = "Wikipedia Article Traffic"
    THEN [out |-> display_wikipedia_analytics(in, resp, build), df |-> <<>>]
    ELSE [out |-> display_website_seo_analytics(in, resp, build), df |-> <<>>]

-----------------------------------------------------------------------------
(* The inputs of a pass: widget values, the HTTP exchange, the build.       *)

MaxItems == 2
MaxViews == 1

Builds == [json_error_is_request_exception : BOOLEAN]

NoResponse == [kind |-> "none"]

\* no requests.get was called in the pass
NoExchange == [http |-> NoResponse, build |-> [json_error_is_request_exception |-> TRUE]]

NoBody == [t |-> "unread"]

NotJson == [t |-> "notjson"]

\* requests.get raising a RequestException (no connection, timeout)
TransportFailures == {[kind |-> "exception", text |-> "ConnectionError"]}

HttpResponses(bodies) ==
    {[kind |-> "response", status |-> st, body |-> NoBody] : st \in {404, 500}}
        \cup {[kind |-> "response", status |-> st, body |-> b] : st \in {200, 300}, b \in bodies}

Stamp(d) == [t |-> "stamp", day |-> d]

\* item lists of one kind: well-formed items, or every item malformed the same way
GoodItemLists ==
    UNION {{[i \in 1..n |-> [timestamp |-> Stamp(i), views |-> JNum(v[i])]] :
                v \in [1..n -> 0..MaxViews]} : n \in 0..MaxItems}

BadItems ==
    {[timestamp |-> JAbsent, views |-> JNum(1)],
     [timestamp |-> Stamp(1), views |-> JAbsent],
     [timestamp |-> JStr("2024-01-01"), views |-> JNum(1)],
     [timestamp |-> Stamp(1), views |-> JStr("many")]}

BadItemLists == {[i \in 1..n |-> b] : n \in 1..MaxItems, b \in BadItems}

WikiBodies ==
    {NotJson, JNull, JNum(0), JStr("error"), JList(<<>>), JList(<<JNum(1)>>)}
        \cup {[t |-> "object", items |-> JAbsent], [t |-> "object", items |-> JNull]}
        \cup {[t |-> "object", items |-> JList(l)] : l \in GoodItemLists \cup BadItemLists}

WikiResponses == TransportFailures \cup HttpResponses(WikiBodies)

ArticleInputs == {<<>>, STREAMLIT, STREAMLIT_COMPANY_URL}

GoodCountries ==
    JList(<<[country_code |-> "USA", country_name |-> "United States", traffic_percentage |-> 60]>>)

BadCountries == JList(<<[country_name |-> "United States"]>>)

MetricsObjects ==
    [t : {"object"},
     global_rank : {JAbsent, JNum(1234)},
     visits : {JAbsent, JNum(1500000)},
     bounce_rate : {JAbsent, JNull, JNum(425)},
     avg_session_duration : {JAbsent, JNull, JNum(1250), JNum(597)},
     traffic_country : {JAbsent, JList(<<>>), GoodCountries, BadCountries},
     traffic_device_split : {JAbsent, JDict(<<>>), JDict(<< <<"desktop", 60>>, <<"mobile", 40>> >>)},
     traffic_sources : {JAbsent, JDict(<<>>), JDict(<< <<"search", 70>>, <<"direct", 30>> >>)}]

\* the field "other" stands for any further key of the object
SeoObjects ==
    [t : {"object"}, success : {JAbsent, JBool(FALSE)},
     message : {JAbsent, JNull, JStr("Invalid key")}, data : {JAbsent}, other : {JAbsent, JStr("x")}]
        \cup [t : {"object"}, success : {JBool(TRUE)}, message : {JAbsent},
              data : {JAbsent, JNull} \cup MetricsObjects, other : {JAbsent}]

SeoBodies ==
    {NotJson, JNull, JNum(0), JStr("error"), JList(<<>>), JList(<<JNum(1)>>)} \cup SeoObjects

SeoResponses == TransportFailures \cup HttpResponses(SeoBodies)

\* the widgets of a view that is not rendered hold their defaults and its
\* button is not pressed
DefaultInputs ==
    [article_input |-> STREAMLIT, start_date |-> 1, end_date |-> MaxDay, wiki_button |-> FALSE,
     api_key |-> "", domain |-> "", seo_button |-> FALSE]

ConstantStream == [i \in 1..StreamPeriod |-> 0]

-----------------------------------------------------------------------------
(* Render passes.                                                           *)

Pass(opt, in, stream, resp, build) ==
    LET r == script(opt, in, stream, resp, build)
    IN /\ pc' = "rendered"
       /\ option' = opt
       /\ inputs' = in
       /\ out' = r.out
       /\ df' = r.df
       /\ response' = IF r.out.gets = <<>> THEN NoExchange ELSE [http |-> resp, build |-> build]
       /\ UNCHANGED <<titleVars, sessionVars>>

RoadTrafficPass ==
    /\ pc = "idle"
    /\ \E stream \in Streams :
        Pass("Simulated NYC Road Traffic", DefaultInputs, stream,
             NoResponse, [json_error_is_request_exception |-> TRUE])

WikipediaPass ==
    /\ pc = "idle"
    /\ \E a \in ArticleInputs, sd \in Dates, ed \in Dates, b \in BOOLEAN,
          resp \in WikiResponses, build \in Builds :
        Pass("Wikipedia Article Traffic",
             [DefaultInputs EXCEPT !.article_input = a, !.start_date = sd, !.end_date = ed,
                                   !.wiki_button = b],
             ConstantStream, resp, build)

SeoPass ==
    /\ pc = "idle"
    /\ \E k \in {"", "k3y"}, d \in {"", "streamlit.io"}, b \in BOOLEAN,
          resp \in SeoResponses, build \in Builds :
        Pass("Website SEO & Traffic",
             [DefaultInputs EXCEPT !.api_key = k, !.domain = d, !.seo_button = b],
             ConstantStream, resp, build)

\* the next interaction reruns the script from the top on an empty page
ScriptRerun ==
    /\ pc = "rendered"
    /\ pc' = "idle"
    /\ option' = "Simulated NYC Road Traffic"
    /\ inputs' = DefaultInputs
    /\ response' = NoExchange
    /\ out' = NoOut
    /\ df' = <<>>
    /\ UNCHANGED <<titleVars, sessionVars>>

-----------------------------------------------------------------------------
(* Title normalisation on its own: every bounded article input.             *)

MaxTail == 4

TailChars == {"_", "/", "%", "2", "5", "F"}

Tails == UNION {[1..n -> TailChars] : n \in 0..MaxTail}

\* a bare tail, a tail behind the article URL prefix, the default title, and
\* the titles with a space in them
TitleInputs ==
    Tails \cup {HTTPS \o MARKER \o tl : tl \in Tails}
        \cup {STREAMLIT, STREAMLIT_COMPANY_URL, <<"S", " ", "t">>, HTTPS \o MARKER \o <<"S", " ", "_", "t">>}

MainIdle ==
    /\ pc = "idle"
    /\ option = "Simulated NYC Road Traffic"
    /\ inputs = DefaultInputs
    /\ response = NoExchange
    /\ out = NoOut
    /\ df = <<>>

TitleIdle == t_pc = "off" /\ t_input = <<>> /\ t_title = <<>> /\ t_formatted = <<>>

SessionIdle == s_pc = "off" /\ s_duration = JAbsent /\ s_tile = ""

InitTitle ==
    /\ MainIdle /\ SessionIdle
    /\ t_pc = "input"
    /\ t_input \in TitleInputs
    /\ t_title = <<>>
    /\ t_formatted = <<>>

NormalizeTitle ==
    /\ t_pc = "input"
    /\ t_title' = derive_article_title(t_input)
    /\ t_pc' = "title"
    /\ UNCHANGED <<t_input, t_formatted, mainVars, sessionVars>>

FormatArticle ==
    /\ t_pc = "title"
    /\ t_formatted' = format_article(t_title)
    /\ t_pc' = "url"
    /\ UNCHANGED <<t_input, t_title, mainVars, sessionVars>>

NextTitle == NormalizeTitle \/ FormatArticle

SpecTitle == InitTitle /\ [][NextTitle]_vars

-----------------------------------------------------------------------------
(* The "Avg. Session" tile on its own: every bounded duration.              *)

\* tenths of a second
MaxDuration == 1300

SessionDurations == {JAbsent, JNull} \cup {JNum(d) : d \in (-MaxDuration)..MaxDuration}

InitSession ==
    /\ MainIdle /\ TitleIdle
    /\ s_pc = "metrics"
    /\ s_duration \in SessionDurations
    /\ s_tile = ""

\* lines 219-224 on metrics = {'avg_session_duration': s_duration}, or {} when absent
RenderSessionTile ==
    /\ s_pc = "metrics"
    /\ s_tile' = avg_session_tile(Get([avg_session_duration |-> s_duration],
                                      "avg_session_duration", None))
    /\ s_pc' = "tile"
    /\ UNCHANGED <<s_duration, mainVars, titleVars>>

NextSession == RenderSessionTile

SpecSession == InitSession /\ [][NextSession]_vars

-----------------------------------------------------------------------------
(* The dashboard.                                                           *)

Init == MainIdle /\ TitleIdle /\ SessionIdle

Next == RoadTrafficPass \/ WikipediaPass \/ SeoPass \/ ScriptRerun

Spec == Init /\ [][Next]_vars

-----------------------------------------------------------------------------
(* Properties.                                                              *)

Wiki == "Wikipedia Article Traffic"
Seo == "Website SEO & Traffic"
Traffic == "Simulated NYC Road Traffic"

Levels == {out.msgs[i].level : i \in 1..Len(out.msgs)}
Heads == {out.msgs[i].head : i \in 1..Len(out.msgs)}
Reported(level, head, arg) ==
    \E i \in 1..Len(out.msgs) : out.msgs[i] = [level |-> level, head |-> head, arg |-> arg]

GetIssued == out.gets # <<>>
GotResponse == GetIssued /\ response.http.kind = "response"
\* requests' Response.ok: the status is below 400
StatusOk == response.http.status < 400
GetFailed == GetIssued /\ (response.http.kind = "exception" \/ ~StatusOk)

WikiInputInvalid ==
    inputs.article_input = <<>> \/ inputs.start_date > inputs.end_date
SeoInputInvalid == inputs.api_key = "" \/ inputs.domain = ""

ValidationError ==
    \/ option = Wiki /\ inputs.wiki_button /\ WikiInputInvalid
    \/ option = Seo /\ inputs.seo_button /\ SeoInputInvalid

\* C1: a pass whose button is pressed with an empty article, a start date
\* after the end date, an empty API key or an empty domain reports a warning,
\* issues no GET, renders no chart and ends normally.
C1_ValidationShortCircuits ==
    (pc = "rendered" /\ ValidationError) =>
        /\ "warning" \in Levels
        /\ ~GetIssued
        /\ response = NoExchange
        /\ out.charts = <<>>
        /\ out.tiles = <<>>
        /\ out.raised = "none"

C1_Witness ==
    /\ pc = "rendered" /\ option = Wiki /\ inputs.wiki_button
    /\ inputs.article_input = STREAMLIT_COMPANY_URL
    /\ inputs.start_date > inputs.end_date
    /\ Reported("warning", "Start date cannot be after end date.", "")
    /\ ~GetIssued

SeoBodyPresent ==
    /\ pc = "rendered" /\ option = Seo /\ GotResponse /\ StatusOk
    /\ response.http.body.t = "object"

ExpectedApiMessage(body) ==
    IF body.message = JAbsent THEN "Unknown error"
    ELSE IF body.message.t = "str" THEN body.message.v ELSE "None"

\* C2: an SEO response object whose success flag is false or missing is
\* reported as "API error: <message>" ("Unknown error" without a message) and
\* never as "Failed to retrieve data".
C2_ApiMessageSurfaced ==
    (SeoBodyPresent /\ response.http.body.success \in {JAbsent, JBool(FALSE)}) =>
        /\ Reported("error", "API error: ", ExpectedApiMessage(response.http.body))
        /\ "Failed to retrieve data. Check API key and domain." \notin Heads

SeoSuccess ==
    /\ SeoBodyPresent
    /\ response.http.body.success = JBool(TRUE)
    /\ response.http.body.data.t = "object"

TileShows(label, values) ==
    \E i \in 1..Len(out.tiles) : out.tiles[i].label = label /\ out.tiles[i].value \in values

\* C3: on a successful SEO response every KPI tile whose field is absent
\* shows "N/A", and the handler renders all four tiles and goes on.
C3_AbsentKpiShowsNA ==
    SeoSuccess =>
        LET m == response.http.body.data
        IN /\ Len(out.tiles) = 4
           /\ m.global_rank = JAbsent => TileShows("Global Rank", {"N/A", "#N/A"})
           /\ m.visits = JAbsent => TileShows("Monthly Visits", {"N/A"})
           /\ m.bounce_rate = JAbsent => TileShows("Bounce Rate", {"N/A"})
           /\ m.avg_session_duration = JAbsent => TileShows("Avg. Session", {"N/A"})

\* C4: whatever the GET produced, the handler ends the pass with a message
\* and no exception leaves it.
C4_NoExceptionLeavesHandler ==
    (pc = "rendered" /\ GetIssued) =>
        /\ out.raised = "none"
        /\ Levels \cap {"error", "warning", "success"} # {}

ExpectedTitle ==
    IF inputs.article_input = STREAMLIT THEN "Streamlit" ELSE "Streamlit (company)"

\* C5: a 404 from the Wikimedia API is reported as "Article '<title>' not
\* found on Wikipedia.", never as "API request failed: ...", and the fetch
\* returns no table (the handler goes on to "No data available").
C5_NotFoundIsExplicit ==
    (pc = "rendered" /\ option = Wiki /\ GotResponse /\ response.http.status = 404) =>
        /\ Reported("error", "Article '{article}' not found on Wikipedia.", ExpectedTitle)
        /\ "API request failed: " \notin Heads
        /\ Reported("error", "No data available for '{article_title}'.", ExpectedTitle)
        /\ out.charts = <<>> /\ out.tiles = <<>>

C5_Witness ==
    /\ pc = "rendered" /\ option = Wiki /\ GotResponse /\ response.http.status = 404
    /\ inputs.article_input = STREAMLIT_COMPANY_URL
    /\ Reported("error", "Article '{article}' not found on Wikipedia.", "Streamlit (company)")

NonEmptyItems ==
    /\ GotResponse /\ StatusOk
    /\ response.http.body.t = "object"
    /\ response.http.body.items.t = "list"
    /\ response.http.body.items.items # <<>>

C7_AtMostOneGet ==
    /\ Len(out.gets) <= 1
    /\ option = Traffic => ~GetIssued
    /\ GetIssued =>
           \/ /\ option = Wiki /\ inputs.wiki_button
              /\ out.gets[1].api = "wikimedia pageviews per-article"
           \/ /\ option = Seo /\ inputs.seo_button
              /\ out.gets[1].api = "seoreviewtools website-traffic-v2"
    /\ GetFailed => ("error" \in Levels /\ Len(out.gets) = 1)

C7_Witness ==
    /\ pc = "rendered" /\ option = Seo /\ GetFailed
    /\ response.http.kind = "response" /\ response.http.status = 500
    /\ Len(out.gets) = 1
    /\ Reported("error", "API request failed: ", "500 Server Error")

\* C8: for a duration of d >= 0 seconds the "Avg. Session" tile reads
\* "<m>m <s>s" with 0 <= s < 60 and 60*m + s the integer part of d; 125
\* gives "2m 5s"; a missing duration gives "N/A".
C8_SessionTileFormat ==
    s_pc = "tile" =>
        /\ (s_duration.t = "num" /\ s_duration.v >= 0) =>
               \E m \in 0..(MaxDuration \div 600 + 1), sec \in 0..59 :
                   /\ 10 * (60 * m + sec) <= s_duration.v
                   /\ s_duration.v < 10 * (60 * m + sec + 1)
                   /\ s_tile = ToString(m) \o "m " \o ToString(sec) \o "s"
        /\ s_duration = JNum(1250) => s_tile = "2m 5s"
        /\ s_duration = JAbsent => s_tile = "N/A"

C8_Witness == s_pc = "tile" /\ s_duration = JNum(1257) /\ s_tile = "2m 5s"

\* the part of s after its last "/", all of s when it has none
LastSegment(s) ==
    LET k == CHOOSE k \in 0..Len(s) :
                 /\ k = 0 \/ s[k] = "/"
                 /\ \A j \in (k + 1)..Len(s) : s[j] # "/"
    IN SubSeq(s, k + 1, Len(s))

\* s with every "%XY" (X, Y hex digits) replaced by the character of byte XY
PercentDecoded(s) ==
    LET esc == {i \in 1..Len(s) : /\ s[i] = "%" /\ i + 2 <= Len(s)
                                   /\ s[i + 1] \in HexDigits /\ s[i + 2] \in HexDigits}
        kept == {i \in 1..Len(s) : i - 1 \notin esc /\ i - 2 \notin esc}
    IN [n \in 1..Cardinality(kept) |->
            LET i == Nth(kept, n)
            IN IF i \in esc THEN ByteChar(16 * HexVal(s[i + 1]) + HexVal(s[i + 2])) ELSE s[i]]

\* C9: an article input containing "en.wikipedia.org/wiki/" gives as title its
\* last "/"-separated segment, percent-decoded, with every underscore a
\* space; any other input is the title unchanged; the article in the request
\* URL is the title with every space an underscore.
C9_TitleNormalization ==
    /\ t_pc \in {"title", "url"} =>
           IF Contains(t_input, MARKER)
           THEN LET d == PercentDecoded(LastSegment(t_input))
                IN /\ Len(t_title) = Len(d)
                   /\ \A i \in 1..Len(d) : t_title[i] = (IF d[i] = "_" THEN " " ELSE d[i])
           ELSE t_title = t_input
    /\ (t_pc \in {"title", "url"} /\ t_input = STREAMLIT_COMPANY_URL) =>
           Str(t_title) = "Streamlit (company)"
    /\ t_pc = "url" =>
           /\ Len(t_formatted) = Len(t_title)
           /\ \A i \in 1..Len(t_title) :
                  t_formatted[i] = (IF t_title[i] = " " THEN "_" ELSE t_title[i])

C9_Witness ==
    /\ t_pc = "url"
    /\ t_input = HTTPS \o MARKER \o <<"2", "%", "5", "F">>
    /\ t_title = <<"2", " ">>
    /\ t_formatted = <<"2", "_">>

Column(col) == {df[k][col] : k \in 1..Len(df)}

TileValue(label) == (CHOOSE tile \in Range(out.tiles) : tile.label = label).value

\* C10: the generated table has 225 rows, one for each pair of 15 latitudes
\* and 15 longitudes of the grid; jamFactor is in [0,10], confidence in
\* [0.5,1], currentSpeed in [10,60], freeFlowSpeed in [40,70]; the reported
\* maximum jamFactor is not below the reported mean.
C10_TrafficTable ==
    (pc = "rendered" /\ option = Traffic) =>
        /\ Len(df) = 225
        /\ Cardinality(Column("lat")) = 15
        /\ Cardinality(Column("lon")) = 15
        /\ Cardinality({<<df[k].lat, df[k].lon>> : k \in 1..Len(df)}) = 225
        /\ \A k \in 1..Len(df) :
               /\ 4070 * 14 <= df[k].lat /\ df[k].lat <= 4080 * 14
               /\ (-7402) * 14 <= df[k].lon /\ df[k].lon <= (-7393) * 14
               /\ 0 <= df[k].jamFactor /\ df[k].jamFactor <= 100 * UnitDen
               /\ 5 * UnitDen <= df[k].confidence /\ df[k].confidence <= 10 * UnitDen
               /\ 100 * UnitDen <= df[k].currentSpeed /\ df[k].currentSpeed <= 600 * UnitDen
               /\ 400 * UnitDen <= df[k].freeFlowSpeed /\ df[k].freeFlowSpeed <= 700 * UnitDen
        /\ LET mx == TileValue("Maximum Jam Factor")
               avg == TileValue("Average Jam Factor")
           IN mx.num * avg.den >= avg.num * mx.den

C10_Witness ==
    /\ pc = "rendered" /\ option = Traffic
    /\ Len(df) = 225
    /\ \E k \in 1..Len(df) : df[k].jamFactor = 100 * UnitDen
    /\ \E k \in 1..Len(df) : df[k].jamFactor = 0
    /\ LET mx == TileValue("Maximum Jam Factor")
           avg == TileValue("Average Jam Factor")
       IN mx.num * avg.den > avg.num * mx.den

====
